---- MODULE Spec2Model ----
(***************************************************************************)
(* Booking coordinator of argocd-book-plugin: the k8s client that keeps a  *)
(* booking (an exclusive lock) in two annotations of an ArgoCD Application *)
(* object.  Every operation is a Get or List of the API server followed,   *)
(* for BookApp and UnbookApp, by a separate JSON merge Patch.  Requests    *)
(* run concurrently; the API server applies each Get, List and Patch       *)
(* atomically, one at a time.                                              *)
(***************************************************************************)
EXTENDS Integers, Sequences, FiniteSets, TLC

(***************************************************************************)
(* Bounds of the model.                                                    *)
(***************************************************************************)
\* The wall clock runs from tick 0 to tick MaxClock.
MaxClock == 2

(***************************************************************************)
(* Program constants.                                                      *)
(***************************************************************************)
AnnotationBookedBy == "booking.argocd.io/booked-by"

AnnotationBookedAt == "booking.argocd.io/booked-at"

\* An annotation of the Application that does not belong to the plugin.
OtherAnnotation == "example.com/team"

\* time.RFC3339 has no fractional seconds: a formatted time keeps whole
\* seconds only.  The clock of the model ticks TicksPerSecond times a second.
TicksPerSecond == 2

\* time.Time{}: the zero time, before every reading of the clock.
ZeroTime == -1

\* time.Now().UTC().Format(time.RFC3339) of the seconds 0, 1, 2, ... of the clock.
RFC3339 ==
  << "2026-01-15T10:00:00Z", "2026-01-15T10:00:01Z", "2026-01-15T10:00:02Z",
     "2026-01-15T10:00:03Z", "2026-01-15T10:00:04Z", "2026-01-15T10:00:05Z" >>

(***************************************************************************)
(* The world the requests are drawn from.                                  *)
(***************************************************************************)
Procs == {"r1", "r2"}

Usernames == {"alice", "bob"}

Namespaces == {"argocd", "other"}

AppNames == {"app1", "app2"}

\* The Application objects an API server may hold, in the order List returns
\* them.  No API server holds other/app2.
Applications == << <<"argocd", "app1">>, <<"argocd", "app2">>, <<"other", "app1">> >>

AppKeys == {Applications[i] : i \in 1..Len(Applications)}

NoSuchApp == <<"other", "app2">>

VARIABLES
  store,    \* the API server: key <<namespace, name>> -> the object's annotations
  clock,    \* the wall clock, in ticks
  call,     \* per request goroutine: the call it serves and where it is
  granted,  \* history: per Application, the users whose BookApp returned nil
            \* since the last unbooking Patch of that Application was applied
  request,  \* per request goroutine: the HTTP request whose handler it runs
  script    \* the number of requests of the scripted sequence sent so far

vars == <<store, clock, call, granted, request, script>>

(***************************************************************************)
(* Errors.  kind is the fixed prefix of the error text, holder the user    *)
(* the text names, cause the error of the API server that is wrapped.      *)
(***************************************************************************)
NoError == [kind |-> "nil", holder |-> "", cause |-> ""]

ErrConflict(bookedBy) == [kind |-> "conflict", holder |-> bookedBy, cause |-> ""]

ErrForbidden(bookedBy) == [kind |-> "forbidden", holder |-> bookedBy, cause |-> ""]

ErrGet(cause) == [kind |-> "failed to get application", holder |-> "", cause |-> cause]

ErrPatch(cause) == [kind |-> "failed to patch application", holder |-> "", cause |-> cause]

ErrList(cause) == [kind |-> "failed to list applications", holder |-> "", cause |-> cause]

(***************************************************************************)
(* Time.                                                                   *)
(***************************************************************************)
\* t.Format(time.RFC3339): the fraction of the second is dropped.
FormatRFC3339(t) == RFC3339[(t \div TicksPerSecond) + 1]

\* time.Parse(time.RFC3339, s) with the error dropped: the zero time for a
\* string that is no RFC3339 time.
ParseRFC3339(s) ==
  IF \E i \in 1..Len(RFC3339) : RFC3339[i] = s
  THEN ((CHOOSE i \in 1..Len(RFC3339) : RFC3339[i] = s) - 1) * TicksPerSecond
  ELSE ZeroTime

(***************************************************************************)
(* The API server (dynamic.Interface).                                     *)
(***************************************************************************)
\* annotations[key] of a Go map: "" for a key that is not there.
Lookup(annotations, key) ==
  IF key \in DOMAIN annotations THEN annotations[key] ELSE ""

\* A patch maps annotation keys to a JSON value: a string or null.
Null == [null |-> TRUE, value |-> ""]

String(v) == [null |-> FALSE, value |-> v]

\* The annotations of the patch take the place of the object's annotations.
MergePatchReplaces(annotations, patch) ==
  [k \in {j \in DOMAIN patch : ~patch[j].null} |-> patch[k].value]

\* MergePatch with the keys the object already has left as they are.
MergePatchKeepsExisting(annotations, patch) ==
  LET removed == {k \in DOMAIN patch : patch[k].null}
      keys    == (DOMAIN annotations \cup DOMAIN patch) \ removed
  IN  [k \in keys |-> IF k \in DOMAIN annotations THEN annotations[k] ELSE patch[k].value]

\* types.MergePatchType on metadata.annotations: a key of the patch is set,
\* or removed when its value is null; every other key is kept.
MergePatch(annotations, patch) ==
  LET removed == {k \in DOMAIN patch : patch[k].null}
      keys    == (DOMAIN annotations \cup DOMAIN patch) \ removed
  IN  [k \in keys |-> IF k \in DOMAIN patch THEN patch[k].value ELSE annotations[k]]

\* Get that looks in the namespace argocd first, whatever namespace is asked.
GetArgocdFirst(s, up, namespace, appName) ==
  IF ~up THEN [err |-> "unavailable", annotations |-> [k \in {} |-> ""]]
  ELSE IF <<"argocd", appName>> \in DOMAIN s
       THEN [err |-> "", annotations |-> s[<<"argocd", appName>>]]
       ELSE IF <<namespace, appName>> \notin DOMAIN s
            THEN [err |-> "not found", annotations |-> [k \in {} |-> ""]]
            ELSE [err |-> "", annotations |-> s[<<namespace, appName>>]]

\* Resource(applicationGVR).Namespace(namespace).Get: the object, or an
\* error when the API server cannot be reached or holds no such object.
Get(s, up, namespace, appName) ==
  IF ~up THEN [err |-> "unavailable", annotations |-> [k \in {} |-> ""]]
  ELSE IF <<namespace, appName>> \notin DOMAIN s
       THEN [err |-> "not found", annotations |-> [k \in {} |-> ""]]
       ELSE [err |-> "", annotations |-> s[<<namespace, appName>>]]

\* Patch that, when it fails, has applied the first key of the patch.
PatchHalfApplied(s, up, namespace, appName, patch) ==
  LET key  == <<namespace, appName>>
      half == [a \in DOMAIN patch \cap {AnnotationBookedBy} |-> patch[a]]
  IN  IF key \notin DOMAIN s THEN [err |-> "not found", store |-> s]
      ELSE IF ~up
      THEN [err |-> "unavailable", store |-> [s EXCEPT ![key] = MergePatch(s[key], half)]]
      ELSE [err |-> "", store |-> [s EXCEPT ![key] = MergePatch(s[key], patch)]]

\* Resource(applicationGVR).Namespace(namespace).Patch: the store after the
\* patch and the error.  Nothing is applied when the call fails.
Patch(s, up, namespace, appName, patch) ==
  IF ~up THEN [err |-> "unavailable", store |-> s]
  ELSE IF <<namespace, appName>> \notin DOMAIN s
       THEN [err |-> "not found", store |-> s]
       ELSE [err |-> "",
             store |-> [s EXCEPT ![<<namespace, appName>>] =
                          MergePatch(s[<<namespace, appName>>], patch)]]

(***************************************************************************)
(* client.GetBookingStatus                                                 *)
(***************************************************************************)
\* GetBookingStatus with the error of Get dropped: an Application that cannot
\* be read is reported as not booked.
GetBookingStatusDropsError(s, up, namespace, appName) ==
  LET app == Get(s, up, namespace, appName)
      bookedBy == Lookup(app.annotations, AnnotationBookedBy)
  IN  IF bookedBy = ""
      THEN [bookedBy |-> "", bookedAt |-> ZeroTime, err |-> NoError]
      ELSE [bookedBy |-> bookedBy,
            bookedAt |-> ParseRFC3339(Lookup(app.annotations, AnnotationBookedAt)),
            err |-> NoError]

\* GetBookingStatus that reports a holder only with a booked-at time that
\* parses.
GetBookingStatusNeedsTime(s, up, namespace, appName) ==
  LET app == Get(s, up, namespace, appName)
      bookedBy == Lookup(app.annotations, AnnotationBookedBy)
      bookedAt == ParseRFC3339(Lookup(app.annotations, AnnotationBookedAt))
  IN  IF app.err # ""
      THEN [bookedBy |-> "", bookedAt |-> ZeroTime, err |-> ErrGet(app.err)]
      ELSE IF bookedBy = "" \/ bookedAt = ZeroTime
           THEN [bookedBy |-> "", bookedAt |-> ZeroTime, err |-> NoError]
           ELSE [bookedBy |-> bookedBy, bookedAt |-> bookedAt, err |-> NoError]

GetBookingStatus(s, up, namespace, appName) ==
  LET app == Get(s, up, namespace, appName)
      bookedBy == Lookup(app.annotations, AnnotationBookedBy)
  IN  IF app.err # ""
      THEN [bookedBy |-> "", bookedAt |-> ZeroTime, err |-> ErrGet(app.err)]
      ELSE IF bookedBy = ""
           THEN [bookedBy |-> "", bookedAt |-> ZeroTime, err |-> NoError]
           ELSE [bookedBy |-> bookedBy,
                 bookedAt |-> ParseRFC3339(Lookup(app.annotations, AnnotationBookedAt)),
                 err |-> NoError]

(***************************************************************************)
(* client.BookApp and client.UnbookApp: what is done with the booking read *)
(***************************************************************************)
\* BookAppCheck without the conflict: a booking of another user is overwritten.
BookAppCheckNoConflict(bookedBy, username) ==
  IF bookedBy = username THEN "already booked" ELSE "patch"

\* BookAppCheck without the early return: the holder's booking is written again.
BookAppCheckNoReentry(bookedBy, username) ==
  IF bookedBy # "" /\ bookedBy # username THEN "conflict" ELSE "patch"

\* BookApp after GetBookingStatus returned without error: the conflict
\* error, nil for the user who holds the booking, or the patch is to be sent.
BookAppCheck(bookedBy, username) ==
  IF bookedBy # "" /\ bookedBy # username THEN "conflict"
  ELSE IF bookedBy = username THEN "already booked"
  ELSE "patch"

\* BookAppPatch without the booked-at annotation.
BookAppPatchNoTime(username, now) ==
  [k \in {AnnotationBookedBy} |-> String(username)]

\* The merge patch of BookApp.
\* The patch names the booked-at annotation twice and the holder never.
BookAppPatchTimeOnly(username, now) ==
  [k \in {AnnotationBookedAt} |-> String(now)]

BookAppPatch(username, now) ==
  [k \in {AnnotationBookedBy, AnnotationBookedAt} |->
     IF k = AnnotationBookedBy THEN String(username) ELSE String(now)]

\* UnbookAppCheck that lets every user unbook.
UnbookAppCheckAnyone(bookedBy, username, isAdmin) ==
  IF bookedBy = "" THEN "not booked" ELSE "patch"

\* UnbookAppCheck that does not look at isAdmin.
UnbookAppCheckNoAdmin(bookedBy, username, isAdmin) ==
  IF bookedBy = "" THEN "not booked"
  ELSE IF bookedBy # username THEN "forbidden"
  ELSE "patch"

\* UnbookAppCheck without the early return for an Application not booked.
UnbookAppCheckNoEarlyReturn(bookedBy, username, isAdmin) ==
  IF bookedBy # username /\ ~isAdmin THEN "forbidden" ELSE "patch"

\* UnbookApp after GetBookingStatus returned without error.
UnbookAppCheck(bookedBy, username, isAdmin) ==
  IF bookedBy = "" THEN "not booked"
  ELSE IF bookedBy # username /\ ~isAdmin THEN "forbidden"
  ELSE "patch"

\* UnbookAppPatch that leaves the booked-at annotation.
UnbookAppPatchHolderOnly == [k \in {AnnotationBookedBy} |-> Null]

\* The merge patch of UnbookApp: both annotations set to null.
UnbookAppPatch == [k \in {AnnotationBookedBy, AnnotationBookedAt} |-> Null]

(***************************************************************************)
(* client.ListBookings                                                     *)
(***************************************************************************)
\* Resource(applicationGVR).Namespace(namespace).List: the objects of the
\* namespace.
List(s, up, namespace) ==
  LET InNamespace(k) == k[1] = namespace /\ k \in DOMAIN s
      keys == SelectSeq(Applications, InNamespace)
  IN  IF ~up THEN [err |-> "unavailable", items |-> << >>]
      ELSE [err |-> "",
            items |-> [i \in 1..Len(keys) |->
                         [namespace |-> keys[i][1], name |-> keys[i][2],
                          annotations |-> s[keys[i]]]]]

\* extractBooking without the nil for an Application that is not booked.
extractBookingNoFilter(app) ==
  << [appName   |-> app.name,
      namespace |-> app.namespace,
      bookedBy  |-> Lookup(app.annotations, AnnotationBookedBy),
      bookedAt  |-> Lookup(app.annotations, AnnotationBookedAt)] >>

\* extractBooking: the booking of one object, as a sequence of one Booking,
\* or the empty sequence for the nil pointer.
extractBooking(app) ==
  LET bookedBy == Lookup(app.annotations, AnnotationBookedBy)
  IN  IF bookedBy = "" THEN << >>
      ELSE << [appName   |-> app.name,
               namespace |-> app.namespace,
               bookedBy  |-> bookedBy,
               bookedAt  |-> Lookup(app.annotations, AnnotationBookedAt)] >>

\* The loop of ListBookings over list.Items.
RECURSIVE AppendBookings(_, _)
AppendBookings(bookings, items) ==
  IF items = << >> THEN bookings
  ELSE AppendBookings(bookings \o extractBooking(Head(items)), Tail(items))

ListBookings(s, up, namespace) ==
  LET list == List(s, up, namespace)
  IN  IF list.err # ""
      THEN [bookings |-> << >>, err |-> ErrList(list.err)]
      ELSE [bookings |-> AppendBookings(<< >>, list.items), err |-> NoError]

(***************************************************************************)
(* Requests.                                                               *)
(***************************************************************************)
\* A goroutine that serves no call.
Idle ==
  [pc |-> "idle", op |-> "none", namespace |-> "", appName |-> "",
   username |-> "", isAdmin |-> FALSE,
   bookedBy |-> "",        \* what GetBookingStatus returned
   bookedAt |-> ZeroTime,
   now |-> "",             \* the string BookApp made of time.Now()
   start |-> 0,            \* history: the clock when BookApp was entered
   dirty |-> FALSE,        \* history: a Patch of another call reached the
                           \* Application after this call's Get
   reads |-> 0,            \* history: Get and List calls sent
   writes |-> 0,           \* history: Patch calls sent
   err |-> NoError, bookings |-> << >>]

Free(p) == call[p].pc \in {"idle", "done"}

\* The goroutines are alike: a request goes to r1 when r1 is free, and to r2
\* when r1 is serving a call.
Accepts(p) == Free(p) /\ (p = "r2" => ~Free("r1"))

Key(c) == <<c.namespace, c.appName>>

\* The Applications requests name: those of the API server and one it does
\* not hold.
Requested == DOMAIN store \cup {NoSuchApp}

\* The call c has returned err: its locals are gone.
Return(c, err) == [c EXCEPT !.pc = "done", !.err = err, !.start = 0, !.now = ""]

\* A Patch by p was applied to key k: the calls of the other goroutines that
\* have read k and not yet returned have been overtaken.
Overtake(calls, p, k) ==
  [q \in Procs |->
     IF q # p /\ calls[q].pc \in {"now", "patch"} /\ Key(calls[q]) = k
     THEN [calls[q] EXCEPT !.dirty = TRUE]
     ELSE calls[q]]

\* A goroutine that was not started by an HTTP request: the headers and the
\* query parameter are texts, an absent one is the empty text.
NoRequest == [op |-> "none", app |-> << >>, user |-> "", groups |-> << >>, query |-> ""]

\* An API server that holds the Applications apps, none of them booked.
InitWith(apps) ==
  /\ store = [k \in apps |->
                IF k = <<"argocd", "app2">>
                THEN [a \in {} |-> ""]
                ELSE [a \in {OtherAnnotation} |-> "platform"]]
  /\ clock = 0
  /\ call = [p \in Procs |-> Idle]
  /\ granted = [k \in apps |-> {}]
  /\ request = [p \in Procs |-> NoRequest]
  /\ script = 0

\* Time passes.
Tick ==
  /\ clock < MaxClock
  /\ clock' = clock + 1
  /\ UNCHANGED <<store, call, granted, request, script>>

\* A call of GetBookingStatus, from entry to return.
Status(p, namespace, appName, up) ==
  /\ Accepts(p)
  /\ LET r == GetBookingStatus(store, up, namespace, appName)
         c == [Idle EXCEPT !.op = "status",
                           !.namespace = namespace, !.appName = appName,
                           !.reads = 1,
                           !.bookedBy = r.bookedBy, !.bookedAt = r.bookedAt]
     IN  call' = [call EXCEPT ![p] = Return(c, r.err)]
  /\ UNCHANGED <<store, clock, granted>>

\* BookApp from entry to the return of GetBookingStatus and the checks on
\* what it returned.
BookApp_Get(p, namespace, appName, username, up) ==
  /\ Accepts(p)
  /\ LET r == GetBookingStatus(store, up, namespace, appName)
         c == [Idle EXCEPT !.op = "book",
                           !.namespace = namespace, !.appName = appName,
                           !.username = username, !.start = clock,
                           !.reads = 1, !.bookedBy = r.bookedBy]
         todo == BookAppCheck(r.bookedBy, username)
     IN  IF r.err # NoError
         THEN /\ call' = [call EXCEPT ![p] = Return(c, r.err)]
              /\ UNCHANGED granted
         ELSE IF todo = "conflict"
         THEN /\ call' = [call EXCEPT ![p] = Return(c, ErrConflict(r.bookedBy))]
              /\ UNCHANGED granted
         ELSE IF todo = "already booked"
         THEN /\ call' = [call EXCEPT ![p] = Return(c, NoError)]
              /\ granted' = [granted EXCEPT ![<<namespace, appName>>] = @ \cup {username}]
         ELSE /\ call' = [call EXCEPT ![p] = [c EXCEPT !.pc = "now"]]
              /\ UNCHANGED granted
  /\ UNCHANGED <<store, clock>>

\* BookApp that waits, before it reads the clock, until nobody else holds
\* the booking.
BookApp_NowWaits(p) ==
  /\ call[p].pc = "now"
  /\ Lookup(store[<<call[p].namespace, call[p].appName>>], AnnotationBookedBy)
       \in {"", call[p].username}
  /\ call' = [call EXCEPT ![p].pc = "patch", ![p].now = FormatRFC3339(clock)]
  /\ UNCHANGED <<store, clock, granted, request, script>>

\* BookApp reads the clock and builds the patch.
BookApp_Now(p) ==
  /\ call[p].pc = "now"
  /\ call' = [call EXCEPT ![p].pc = "patch", ![p].now = FormatRFC3339(clock)]
  /\ UNCHANGED <<store, clock, granted, request, script>>

\* The API server answers the Patch of BookApp, and BookApp returns.
BookApp_Patch(p, up) ==
  /\ call[p].pc = "patch"
  /\ call[p].op = "book"
  /\ LET c == [call[p] EXCEPT !.writes = 1]
         r == Patch(store, up, c.namespace, c.appName, BookAppPatch(c.username, c.now))
     IN  /\ store' = r.store
         /\ IF r.err # ""
            THEN /\ call' = [call EXCEPT ![p] = Return(c, ErrPatch(r.err))]
                 /\ UNCHANGED granted
            ELSE /\ call' = Overtake([call EXCEPT ![p] = Return(c, NoError)], p, Key(c))
                 /\ granted' = [granted EXCEPT ![Key(c)] = @ \cup {c.username}]
  /\ UNCHANGED <<clock, request, script>>

\* UnbookApp from entry to the return of GetBookingStatus and the checks on
\* what it returned.
UnbookApp_Get(p, namespace, appName, username, isAdmin, up) ==
  /\ Accepts(p)
  /\ LET r == GetBookingStatus(store, up, namespace, appName)
         c == [Idle EXCEPT !.op = "unbook",
                           !.namespace = namespace, !.appName = appName,
                           !.username = username, !.isAdmin = isAdmin,
                           !.reads = 1, !.bookedBy = r.bookedBy]
         todo == UnbookAppCheck(r.bookedBy, username, isAdmin)
     IN  IF r.err # NoError
         THEN call' = [call EXCEPT ![p] = Return(c, r.err)]
         ELSE IF todo = "not booked"
         THEN call' = [call EXCEPT ![p] = Return(c, NoError)]
         ELSE IF todo = "forbidden"
         THEN call' = [call EXCEPT ![p] = Return(c, ErrForbidden(r.bookedBy))]
         ELSE call' = [call EXCEPT ![p] = [c EXCEPT !.pc = "patch"]]
  /\ UNCHANGED <<store, clock, granted>>

\* The API server answers the Patch of UnbookApp, and UnbookApp returns.
UnbookApp_Patch(p, up) ==
  /\ call[p].pc = "patch"
  /\ call[p].op = "unbook"
  /\ LET c == [call[p] EXCEPT !.writes = 1]
         r == Patch(store, up, c.namespace, c.appName, UnbookAppPatch)
     IN  /\ store' = r.store
         /\ IF r.err # ""
            THEN /\ call' = [call EXCEPT ![p] = Return(c, ErrPatch(r.err))]
                 /\ UNCHANGED granted
            ELSE /\ call' = Overtake([call EXCEPT ![p] = Return(c, NoError)], p, Key(c))
                 /\ granted' = [granted EXCEPT ![Key(c)] = {}]
  /\ UNCHANGED <<clock, request, script>>

\* A call of ListBookings, from entry to return.
ListBookings_Call(p, namespace, up) ==
  /\ Accepts(p)
  /\ LET r == ListBookings(store, up, namespace)
         c == [Idle EXCEPT !.op = "list", !.namespace = namespace,
                           !.reads = 1, !.bookings = r.bookings]
     IN  call' = [call EXCEPT ![p] = Return(c, r.err)]
  /\ UNCHANGED <<store, clock, granted>>

\* A step of a call served by one of the goroutines P.
Calls(P) ==
  \/ \E p \in P, k \in Requested, up \in BOOLEAN :
       Status(p, k[1], k[2], up) /\ UNCHANGED <<request, script>>
  \/ \E p \in P, k \in Requested, u \in Usernames, up \in BOOLEAN :
       BookApp_Get(p, k[1], k[2], u, up) /\ UNCHANGED <<request, script>>
  \/ \E p \in P : BookApp_Now(p)
  \/ \E p \in P, up \in BOOLEAN : BookApp_Patch(p, up)
  \/ \E p \in P, k \in Requested, u \in Usernames, admin \in BOOLEAN, up \in BOOLEAN :
       UnbookApp_Get(p, k[1], k[2], u, admin, up) /\ UNCHANGED <<request, script>>
  \/ \E p \in P, up \in BOOLEAN : UnbookApp_Patch(p, up)
  \/ \E p \in P, ns \in Namespaces, up \in BOOLEAN :
       ListBookings_Call(p, ns, up) /\ UNCHANGED <<request, script>>

\* A step of the goroutines P, or of the clock.
Step(P) == Tick \/ Calls(P)

(***************************************************************************)
(* Spec: concurrent calls of the client for one Application.               *)
(***************************************************************************)
Init == InitWith({<<"argocd", "app1">>})

Next == Step(Procs)

Spec == Init /\ [][Next]_vars

(***************************************************************************)
(* SpecSerial: requests served one at a time, for the Applications of two  *)
(* namespaces.                                                             *)
(***************************************************************************)
InitSerial == InitWith(AppKeys)

NextSerial == Step({"r1"})

SpecSerial == InitSerial /\ [][NextSerial]_vars

(***************************************************************************)
(* What the annotations of an Application say.                             *)
(***************************************************************************)
Holder(s, k) == Lookup(s[k], AnnotationBookedBy)

Unbooked(s, k) ==
  AnnotationBookedBy \notin DOMAIN s[k] /\ AnnotationBookedAt \notin DOMAIN s[k]

\* The step may be the first of a call of op by p for Application k and user u.
Enters(p, op, k, u) ==
  /\ Accepts(p)
  /\ call'[p].op = op
  /\ Key(call'[p]) = k
  /\ call'[p].username = u

\* p is the goroutine whose BookApp gets the answer to its Patch in this step.
BookPatched(p) == call[p].pc = "patch" /\ call[p].op = "book" /\ call'[p].pc = "done"

\* p is the goroutine whose UnbookApp gets the answer to its Patch in this step.
UnbookPatched(p) == call[p].pc = "patch" /\ call[p].op = "unbook" /\ call'[p].pc = "done"

(***************************************************************************)
(* C1.  Mutual exclusion: there are never two different users who each got *)
(* nil from BookApp for the same Application with no unbooking Patch of    *)
(* that Application applied in between.                                    *)
(***************************************************************************)
MutualExclusion == \A k \in DOMAIN granted : Cardinality(granted[k]) <= 1

(***************************************************************************)
(* C2.  Lost update: the Patch of a BookApp that was overtaken (another    *)
(* call's Patch reached the Application after this BookApp read it as      *)
(* unbooked) is applied all the same.  BookApp never answers it with the   *)
(* conflict error, and when the Patch is applied BookApp returns nil, the   *)
(* annotations hold this caller and this caller's time, whoever was there  *)
(* before, and the users granted before stay granted.                      *)
(***************************************************************************)
LostUpdate ==
  [][\A p \in Procs :
       (BookPatched(p) /\ call[p].dirty) =>
         LET c == call[p]
             k == Key(c)
         IN  \/ /\ call'[p].err = ErrPatch("unavailable")
                /\ store' = store
             \/ /\ call'[p].err = NoError
                /\ Holder(store', k) = c.username
                /\ Lookup(store'[k], AnnotationBookedAt) = c.now
                /\ granted'[k] = granted[k] \cup {c.username}]_vars

\* Both goroutines have returned nil from a BookApp that read app1 as unbooked
\* and sent its Patch, for two different users; both are granted, and the
\* annotations name one of them only.
LostUpdateReached ==
  LET k == <<"argocd", "app1">>
      a == call["r1"]
      b == call["r2"]
  IN  /\ a.pc = "done" /\ b.pc = "done"
      /\ a.op = "book" /\ b.op = "book"
      /\ Key(a) = k /\ Key(b) = k
      /\ a.username # b.username
      /\ a.bookedBy = "" /\ b.bookedBy = ""
      /\ a.writes = 1 /\ b.writes = 1
      /\ a.err = NoError /\ b.err = NoError
      /\ granted[k] = {a.username, b.username}
      /\ a.dirty /\ ~b.dirty
      /\ Holder(store, k) = a.username

(***************************************************************************)
(* C3.  BookApp of an unbooked Application that no other call's Patch      *)
(* reaches meanwhile: the checks after the Get send it on to the Patch,    *)
(* and once the Patch is applied BookApp returns nil and GetBookingStatus  *)
(* gives the caller and a time t.                                          *)
(*                                                                         *)
(* As claimed (BookedAtWithinCall): t is a reading of the clock between    *)
(* the entry of BookApp and its return.                                    *)
(* As amended (BookedAtWithinCallSeconds): t is such a reading with the    *)
(* fraction of the second dropped, so t may lie before the entry of        *)
(* BookApp, by less than a second.                                         *)
(***************************************************************************)
\* The step is the Get of a BookApp by user u for the unbooked Application k,
\* answered by the API server.
BookGetUnbooked(p, k, u) ==
  /\ k \in DOMAIN store
  /\ Holder(store, k) = ""
  /\ Enters(p, "book", k, u)
  /\ BookApp_Get(p, k[1], k[2], u, TRUE)

\* What BookApp of an unbooked Application does, with the time it books
\* lying in Window(start, end), for the clock readings at entry and return.
BookUnbooked(Window(_, _)) ==
  /\ \A p \in Procs, k \in Requested, u \in Usernames :
       BookGetUnbooked(p, k, u) =>
         /\ call'[p].pc = "now"
         /\ call'[p].start = clock
         /\ store' = store
  /\ \A p \in Procs :
       (BookPatched(p) /\ ~call[p].dirty) =>
         LET c == call[p]
             q == GetBookingStatus(store', TRUE, c.namespace, c.appName)
         IN  \/ /\ call'[p].err = ErrPatch("unavailable")
                /\ store' = store
             \/ /\ call'[p].err = NoError
                /\ q.err = NoError
                /\ q.bookedBy = c.username
                /\ q.bookedAt \in Window(c.start, clock')
                /\ AnnotationBookedAt \in DOMAIN store'[Key(c)]

WholeCall(start, end) == start..end

WholeCallSeconds(start, end) == {t - (t % TicksPerSecond) : t \in start..end}

BookedAtWithinCall == [][BookUnbooked(WholeCall)]_vars

BookedAtWithinCallSeconds == [][BookUnbooked(WholeCallSeconds)]_vars

\* A BookApp that read app1 as unbooked and was not overtaken has returned
\* nil; it was entered in the middle of a second, and the time it booked is
\* the start of that second.
BookedUnbookedReached ==
  \E p \in Procs :
    LET c == call[p]
        k == <<"argocd", "app1">>
    IN  /\ c.pc = "done" /\ c.op = "book" /\ Key(c) = k
        /\ c.bookedBy = "" /\ c.writes = 1 /\ ~c.dirty /\ c.err = NoError
        /\ Holder(store, k) = c.username
        /\ clock = 1
        /\ GetBookingStatus(store, TRUE, k[1], k[2]).bookedAt = 0

(***************************************************************************)
(* C4.  BookApp by user u of an Application that another user holds        *)
(* returns the conflict error naming the holder, sends no Patch, and       *)
(* leaves the annotations as they were.                                    *)
(***************************************************************************)
BookConflict ==
  [][\A p \in Procs, k \in Requested, u \in Usernames :
       ( /\ k \in DOMAIN store
         /\ Holder(store, k) \notin {"", u}
         /\ Enters(p, "book", k, u)
         /\ BookApp_Get(p, k[1], k[2], u, TRUE) ) =>
         /\ call'[p].pc = "done"
         /\ call'[p].err = ErrConflict(Holder(store, k))
         /\ call'[p].writes = 0
         /\ store' = store
         /\ granted' = granted]_vars

\* A BookApp has returned the conflict error naming the user who holds app1.
BookConflictReached ==
  \E p \in Procs :
    LET c == call[p]
        k == <<"argocd", "app1">>
    IN  /\ c.pc = "done" /\ c.op = "book" /\ Key(c) = k
        /\ c.err.kind = "conflict"
        /\ c.err.holder = Holder(store, k)
        /\ c.err.holder \notin {"", c.username}
        /\ c.writes = 0

(***************************************************************************)
(* C5.  BookApp by the user who holds the Application returns nil, sends   *)
(* no Patch, and leaves the holder and the booked-at time as they were,    *)
(* however often it is called.                                             *)
(***************************************************************************)
BookByHolder ==
  [][\A p \in Procs, k \in Requested, u \in Usernames :
       ( /\ k \in DOMAIN store
         /\ Holder(store, k) = u
         /\ Enters(p, "book", k, u)
         /\ BookApp_Get(p, k[1], k[2], u, TRUE) ) =>
         /\ call'[p].pc = "done"
         /\ call'[p].err = NoError
         /\ call'[p].writes = 0
         /\ store' = store]_vars

\* The holder of app1 has booked it again a second after the booking, and the
\* booked-at time is still the first one.
BookByHolderReached ==
  \E p \in Procs :
    LET c == call[p]
        k == <<"argocd", "app1">>
    IN  /\ c.pc = "done" /\ c.op = "book" /\ Key(c) = k
        /\ c.err = NoError /\ c.writes = 0
        /\ c.bookedBy = c.username
        /\ Holder(store, k) = c.username
        /\ Lookup(store[k], AnnotationBookedAt) = FormatRFC3339(0)
        /\ clock = TicksPerSecond

(***************************************************************************)
(* C6.  UnbookApp without isAdmin by the user who holds the Application,   *)
(* with no other call's Patch meanwhile: the checks send it on to the      *)
(* Patch, and once the one Patch is applied UnbookApp returns nil and both *)
(* annotations are gone.                                                   *)
(***************************************************************************)
UnbookByHolder ==
  [][/\ \A p \in Procs, k \in Requested, u \in Usernames :
          ( /\ k \in DOMAIN store
            /\ Holder(store, k) = u
            /\ Enters(p, "unbook", k, u)
            /\ UnbookApp_Get(p, k[1], k[2], u, FALSE, TRUE) ) =>
            /\ call'[p].pc = "patch"
            /\ store' = store
     /\ \A p \in Procs :
          ( /\ UnbookPatched(p)
            /\ ~call[p].isAdmin
            /\ call[p].bookedBy = call[p].username
            /\ ~call[p].dirty ) =>
            LET k == Key(call[p])
            IN  \/ /\ call'[p].err = ErrPatch("unavailable")
                   /\ store' = store
                \/ /\ call'[p].err = NoError
                   /\ call'[p].writes = 1
                   /\ Unbooked(store', k)
                   /\ GetBookingStatus(store', TRUE, k[1], k[2]).bookedBy = ""]_vars

\* The holder of app1 has unbooked it without isAdmin.
UnbookByHolderReached ==
  \E p \in Procs :
    LET c == call[p]
        k == <<"argocd", "app1">>
    IN  /\ c.pc = "done" /\ c.op = "unbook" /\ Key(c) = k
        /\ ~c.isAdmin /\ c.bookedBy = c.username /\ ~c.dirty
        /\ c.err = NoError /\ c.writes = 1
        /\ Unbooked(store, k)

(***************************************************************************)
(* C7.  UnbookApp without isAdmin by a user other than the holder returns  *)
(* the forbidden error naming the holder, sends no Patch, and leaves the   *)
(* annotations as they were.                                               *)
(***************************************************************************)
UnbookForbidden ==
  [][\A p \in Procs, k \in Requested, u \in Usernames :
       ( /\ k \in DOMAIN store
         /\ Holder(store, k) \notin {"", u}
         /\ Enters(p, "unbook", k, u)
         /\ UnbookApp_Get(p, k[1], k[2], u, FALSE, TRUE) ) =>
         /\ call'[p].pc = "done"
         /\ call'[p].err = ErrForbidden(Holder(store, k))
         /\ call'[p].writes = 0
         /\ store' = store
         /\ granted' = granted]_vars

\* An UnbookApp has returned the forbidden error naming the holder of app1.
UnbookForbiddenReached ==
  \E p \in Procs :
    LET c == call[p]
        k == <<"argocd", "app1">>
    IN  /\ c.pc = "done" /\ c.op = "unbook" /\ Key(c) = k
        /\ ~c.isAdmin
        /\ c.err.kind = "forbidden"
        /\ c.err.holder = Holder(store, k)
        /\ c.err.holder \notin {"", c.username}
        /\ c.writes = 0

(***************************************************************************)
(* C8.  UnbookApp with isAdmin of a booked Application, by the holder or   *)
(* by any other user: the checks send it on to the Patch, and once the     *)
(* Patch is applied UnbookApp returns nil and the Application is unbooked. *)
(***************************************************************************)
UnbookByAdmin ==
  [][/\ \A p \in Procs, k \in Requested, u \in Usernames :
          ( /\ k \in DOMAIN store
            /\ Holder(store, k) # ""
            /\ Enters(p, "unbook", k, u)
            /\ UnbookApp_Get(p, k[1], k[2], u, TRUE, TRUE) ) =>
            /\ call'[p].pc = "patch"
            /\ store' = store
     /\ \A p \in Procs :
          (UnbookPatched(p) /\ call[p].isAdmin) =>
            LET k == Key(call[p])
            IN  \/ /\ call'[p].err = ErrPatch("unavailable")
                   /\ store' = store
                \/ /\ call'[p].err = NoError
                   /\ Unbooked(store', k)
                   /\ granted'[k] = {}]_vars

\* A user with isAdmin has unbooked app1, which another user held.
UnbookByAdminReached ==
  \E p \in Procs :
    LET c == call[p]
        k == <<"argocd", "app1">>
    IN  /\ c.pc = "done" /\ c.op = "unbook" /\ Key(c) = k
        /\ c.isAdmin /\ c.bookedBy \notin {"", c.username}
        /\ c.err = NoError /\ c.writes = 1
        /\ Unbooked(store, k)

(***************************************************************************)
(* C9.  UnbookApp of an Application that is not booked returns nil for     *)
(* every user, with or without isAdmin, sends no Patch, and leaves the     *)
(* Application unbooked.                                                   *)
(***************************************************************************)
UnbookUnbooked ==
  [][\A p \in Procs, k \in Requested, u \in Usernames, admin \in BOOLEAN :
       ( /\ k \in DOMAIN store
         /\ Holder(store, k) = ""
         /\ Enters(p, "unbook", k, u)
         /\ UnbookApp_Get(p, k[1], k[2], u, admin, TRUE) ) =>
         /\ call'[p].pc = "done"
         /\ call'[p].err = NoError
         /\ call'[p].writes = 0
         /\ store' = store
         /\ Holder(store', k) = ""]_vars

\* An UnbookApp without isAdmin of app1, which is not booked, has returned nil
\* without a Patch.
UnbookUnbookedReached ==
  \E p \in Procs :
    LET c == call[p]
        k == <<"argocd", "app1">>
    IN  /\ c.pc = "done" /\ c.op = "unbook" /\ Key(c) = k
        /\ ~c.isAdmin
        /\ c.bookedBy = "" /\ c.err = NoError /\ c.writes = 0
        /\ Unbooked(store, k)

(***************************************************************************)
(* C10.  ListBookings of a namespace returns one Booking for each          *)
(* Application of the namespace whose booked-by annotation is not empty,   *)
(* with the Application's name, namespace, holder and booked-at time, and  *)
(* nothing else: no Booking for an unbooked Application or for one of      *)
(* another namespace.  An Application is listed exactly when               *)
(* GetBookingStatus reports a holder for it.  (Stated for SpecSerial,      *)
(* where the last answer of ListBookings is still that of the store.)      *)
(***************************************************************************)
\* The places in the list of the Bookings for Application k.
Listed(bookings, k) ==
  {i \in 1..Len(bookings) :
     bookings[i].namespace = k[1] /\ bookings[i].appName = k[2]}

ListIsTheBooked ==
  /\ \A ns \in Namespaces :
       LET r == ListBookings(store, TRUE, ns)
           held == {k \in DOMAIN store : k[1] = ns /\ Holder(store, k) # ""}
       IN  /\ r.err = NoError
           /\ Len(r.bookings) = Cardinality(held)
           /\ \A k \in held :
                \E i \in Listed(r.bookings, k) :
                  /\ r.bookings[i].bookedBy = Holder(store, k)
                  /\ r.bookings[i].bookedAt = Lookup(store[k], AnnotationBookedAt)
           /\ \A k \in DOMAIN store :
                k[1] = ns =>
                  (Listed(r.bookings, k) # {}
                     <=> GetBookingStatus(store, TRUE, k[1], k[2]).bookedBy # "")
  /\ \A p \in Procs :
       (call[p].pc = "done" /\ call[p].op = "list" /\ call[p].err = NoError) =>
         call[p].bookings = ListBookings(store, TRUE, call[p].namespace).bookings

\* ListBookings of argocd has returned the one Booking of app1, while
\* argocd/app2 is not booked and other/app1 is.
ListIsTheBookedReached ==
  LET c == call["r1"]
  IN  /\ c.pc = "done" /\ c.op = "list" /\ c.namespace = "argocd"
      /\ c.err = NoError
      /\ Len(c.bookings) = 1
      /\ c.bookings[1].appName = "app1"
      /\ c.bookings[1].bookedBy = Holder(store, <<"argocd", "app1">>)
      /\ Holder(store, <<"argocd", "app2">>) = ""
      /\ Holder(store, <<"other", "app1">>) # ""

(***************************************************************************)
(* C12.  In every step, also of interleaved calls, the booked-by           *)
(* annotation of an Application changes only from absent to the caller of  *)
(* a BookApp whose Patch is applied in the step, or from any holder to     *)
(* absent by the Patch of an UnbookApp: never from one holder straight to  *)
(* another, so a booking stays until an unbooking Patch is applied.        *)
(***************************************************************************)
HolderTransitions ==
  [][\A k \in DOMAIN store :
       LET before == Holder(store, k)
           after  == Holder(store', k)
       IN  before # after =>
             \/ /\ before = ""
                /\ \E p \in Procs :
                     /\ BookPatched(p)
                     /\ Key(call[p]) = k
                     /\ call[p].username = after
             \/ /\ after = ""
                /\ \E p \in Procs : UnbookPatched(p) /\ Key(call[p]) = k]_vars

(***************************************************************************)
(* C13.  The two annotations go together: starting from Applications that  *)
(* carry neither, in every reachable state of every interleaving an        *)
(* Application has the booked-by annotation exactly when it has the        *)
(* booked-at annotation, the holder is not the empty string, and the       *)
(* booked-at value is a time that parses.  Each Patch of BookApp sets      *)
(* both and each Patch of UnbookApp removes both.                          *)
(***************************************************************************)
BothOrNeither ==
  \A k \in DOMAIN store :
    /\ AnnotationBookedBy \in DOMAIN store[k] <=> AnnotationBookedAt \in DOMAIN store[k]
    /\ AnnotationBookedBy \in DOMAIN store[k] =>
         /\ store[k][AnnotationBookedBy] # ""
         /\ ParseRFC3339(store[k][AnnotationBookedAt]) # ZeroTime

\* Two BookApp calls have interleaved and both Patches were applied, and an
\* UnbookApp is about to send its Patch: the Application carries both
\* annotations.
BothOrNeitherReached ==
  \E k \in DOMAIN store :
    /\ Cardinality(granted[k]) = 2
    /\ AnnotationBookedBy \in DOMAIN store[k]
    /\ AnnotationBookedAt \in DOMAIN store[k]
    /\ \E p \in Procs : call[p].pc = "patch" /\ call[p].op = "unbook"

(***************************************************************************)
(* C14.  GetBookingStatus and ListBookings only read: the step of such a   *)
(* call sends one Get or List and no Patch, and leaves the annotations of  *)
(* every Application (and who holds a booking) as they were.               *)
(* GetBookingStatus of an Application the API server does not hold         *)
(* returns the error of the Get, never the answer "not booked";            *)
(* ListBookings returns the error of the List when the API server cannot   *)
(* be reached.                                                             *)
(***************************************************************************)
ReadsOnlyRead ==
  [][\A p \in Procs :
       ( /\ Accepts(p)
         /\ call'[p] # call[p]
         /\ call'[p].op \in {"status", "list"} ) =>
         /\ store' = store
         /\ granted' = granted
         /\ call'[p].pc = "done"
         /\ call'[p].reads = 1
         /\ call'[p].writes = 0
         /\ \A q \in Procs \ {p} : call'[q] = call[q]
         /\ ( call'[p].op = "status" /\ Key(call'[p]) \notin DOMAIN store ) =>
              /\ call'[p].err \in {ErrGet("not found"), ErrGet("unavailable")}
              /\ call'[p].bookedBy = ""
         /\ ( call'[p].op = "status" /\ Key(call'[p]) \in DOMAIN store ) =>
              \/ call'[p].err = ErrGet("unavailable")
              \/ /\ call'[p].err = NoError
                 /\ call'[p].bookedBy = Holder(store, Key(call'[p]))
         /\ call'[p].op = "list" =>
              call'[p].err \in {NoError, ErrList("unavailable")}]_vars

\* GetBookingStatus of the Application no API server holds has returned the
\* error of the Get while argocd/app1 is booked, and the other goroutine is
\* in the middle of a BookApp.
ReadsOnlyReadReached ==
  /\ call["r2"].pc = "done"
  /\ call["r2"].op = "status"
  /\ Key(call["r2"]) = NoSuchApp
  /\ call["r2"].err = ErrGet("not found")
  /\ call["r1"].pc = "patch"
  /\ Holder(store, <<"argocd", "app1">>) # ""

(***************************************************************************)
(* Texts.  A Go string the handler takes apart or searches is a text: a    *)
(* sequence of pieces, each piece standing for its characters.             *)
(***************************************************************************)
\* The characters of the pieces the texts are made of.
Chars(piece) ==
  CASE
       piece = "argocd" ->
         <<"a", "r", "g", "o", "c", "d">>
    [] piece = "other" ->
         <<"o", "t", "h", "e", "r">>
    [] piece = "app1" ->
         <<"a", "p", "p", "1">>
    [] piece = "app2" ->
         <<"a", "p", "p", "2">>
    [] piece = "conflict" ->
         <<"c", "o", "n", "f", "l", "i", "c", "t">>
    [] piece = "forbidden" ->
         <<"f", "o", "r", "b", "i", "d", "d", "e", "n">>
    [] piece = "alice" ->
         <<"a", "l", "i", "c", "e">>
    [] piece = "bob" ->
         <<"b", "o", "b">>
    [] piece = "admin" ->
         <<"a", "d", "m", "i", "n">>
    [] piece = "developers" ->
         <<"d", "e", "v", "e", "l", "o", "p", "e", "r", "s">>
    [] piece = "administrators" ->
         <<"a", "d", "m", "i", "n", "i", "s", "t", "r", "a", "t", "o",
           "r", "s">>
    [] piece = ":" ->
         <<":">>
    [] piece = "," ->
         <<",">>
    [] piece = " " ->
         <<" ">>
    [] piece = "/" ->
         <<"/">>
    [] piece = ": " ->
         <<":", " ">>
    [] piece = "not found" ->
         <<"n", "o", "t", " ", "f", "o", "u", "n", "d">>
    [] piece = "unavailable" ->
         <<"u", "n", "a", "v", "a", "i", "l", "a", "b", "l", "e">>
    [] piece = "failed to get application " ->
         <<"f", "a", "i", "l", "e", "d", " ", "t", "o", " ", "g", "e",
           "t", " ", "a", "p", "p", "l", "i", "c", "a", "t", "i", "o",
           "n", " ">>
    [] piece = "failed to patch application " ->
         <<"f", "a", "i", "l", "e", "d", " ", "t", "o", " ", "p", "a",
           "t", "c", "h", " ", "a", "p", "p", "l", "i", "c", "a", "t",
           "i", "o", "n", " ">>
    [] piece = "failed to list applications in " ->
         <<"f", "a", "i", "l", "e", "d", " ", "t", "o", " ", "l", "i",
           "s", "t", " ", "a", "p", "p", "l", "i", "c", "a", "t", "i",
           "o", "n", "s", " ", "i", "n", " ">>
    [] piece = "conflict: application already booked by " ->
         <<"c", "o", "n", "f", "l", "i", "c", "t", ":", " ", "a", "p",
           "p", "l", "i", "c", "a", "t", "i", "o", "n", " ", "a", "l",
           "r", "e", "a", "d", "y", " ", "b", "o", "o", "k", "e", "d",
           " ", "b", "y", " ">>
    [] piece = "forbidden: application is booked by " ->
         <<"f", "o", "r", "b", "i", "d", "d", "e", "n", ":", " ", "a",
           "p", "p", "l", "i", "c", "a", "t", "i", "o", "n", " ", "i",
           "s", " ", "b", "o", "o", "k", "e", "d", " ", "b", "y", " ">>
    [] piece = ", only they or an admin can unbook" ->
         <<",", " ", "o", "n", "l", "y", " ", "t", "h", "e", "y", " ",
           "o", "r", " ", "a", "n", " ", "a", "d", "m", "i", "n", " ",
           "c", "a", "n", " ", "u", "n", "b", "o", "o", "k">>
    [] piece = "conflict:" ->
         <<"c", "o", "n", "f", "l", "i", "c", "t", ":">>
    [] piece = "forbidden:" ->
         <<"f", "o", "r", "b", "i", "d", "d", "e", "n", ":">>

\* The characters of a text.
RECURSIVE Flatten(_)
Flatten(text) ==
  IF text = << >> THEN << >> ELSE Chars(Head(text)) \o Flatten(Tail(text))

\* The names of namespaces and Applications that requests carry.
Names == {"argocd", "other", "app1", "app2", "conflict", "forbidden"}

\* The name with the characters chars.
Name(chars) == CHOOSE n \in Names : Chars(n) = chars

\* strings.Contains
Contains(s, substr) ==
  \E i \in 1..(Len(s) - Len(substr) + 1) : SubSeq(s, i, i + Len(substr) - 1) = substr

\* The place of the first sep in s, 0 when there is none.
Index(s, sep) ==
  IF \E i \in 1..Len(s) : s[i] = sep
  THEN CHOOSE i \in 1..Len(s) : s[i] = sep /\ \A j \in 1..(i - 1) : s[j] # sep
  ELSE 0

\* strings.Split with every separator splitting.
RECURSIVE Split(_, _)
Split(s, sep) ==
  LET i == Index(s, sep)
  IN  IF i = 0 THEN << s >>
      ELSE << SubSeq(s, 1, i - 1) >> \o Split(SubSeq(s, i + 1, Len(s)), sep)

\* strings.SplitN(s, sep, 2): split at the first separator only.
SplitN2(s, sep) ==
  LET i == Index(s, sep)
  IN  IF i = 0 THEN << s >>
      ELSE << SubSeq(s, 1, i - 1), SubSeq(s, i + 1, Len(s)) >>

WhiteSpace == {" ", "\t"}

\* strings.TrimSpace
RECURSIVE TrimSpace(_)
TrimSpace(s) ==
  IF s = << >> THEN s
  ELSE IF Head(s) \in WhiteSpace THEN TrimSpace(Tail(s))
  ELSE IF s[Len(s)] \in WhiteSpace THEN TrimSpace(SubSeq(s, 1, Len(s) - 1))
  ELSE s

\* err.Error() of the error err returned by a call of the client for
\* namespace and appName (fmt.Errorf with %s and %w).
Error(err, namespace, appName) ==
  CASE err.kind = "conflict" ->
         << "conflict: application already booked by ", err.holder >>
    [] err.kind = "forbidden" ->
         << "forbidden: application is booked by ", err.holder,
            ", only they or an admin can unbook" >>
    [] err.kind = "failed to get application" ->
         << "failed to get application ", namespace, "/", appName, ": ", err.cause >>
    [] err.kind = "failed to patch application" ->
         << "failed to patch application ", namespace, "/", appName, ": ", err.cause >>
    [] err.kind = "failed to list applications" ->
         << "failed to list applications in ", namespace, ": ", err.cause >>

(***************************************************************************)
(* The handlers of the HTTP API (handler.go).                              *)
(***************************************************************************)
adminGroup == "admin"

StatusOK == 200
StatusBadRequest == 400
StatusForbidden == 403
StatusConflict == 409
StatusInternalServerError == 500

\* parseAppHeader that takes a header without a colon as the name of an
\* Application of the namespace argocd.
parseAppHeaderDefaultNamespace(raw) ==
  LET parts == SplitN2(Flatten(raw), ":")
  IN  IF Flatten(raw) = << >>
      THEN [namespace |-> "", appName |-> "", ok |-> FALSE]
      ELSE IF Len(parts) = 1
      THEN [namespace |-> "argocd", appName |-> Name(parts[1]), ok |-> TRUE]
      ELSE IF parts[1] = << >> \/ parts[2] = << >>
      THEN [namespace |-> "", appName |-> "", ok |-> FALSE]
      ELSE [namespace |-> Name(parts[1]), appName |-> Name(parts[2]), ok |-> TRUE]

\* parseAppHeader: the header Argocd-Application-Name as namespace:appname.
parseAppHeader(raw) ==
  LET parts == SplitN2(Flatten(raw), ":")
  IN  IF Flatten(raw) = << >>
      THEN [namespace |-> "", appName |-> "", ok |-> FALSE]
      ELSE IF Len(parts) # 2 \/ parts[1] = << >> \/ parts[2] = << >>
      THEN [namespace |-> "", appName |-> "", ok |-> FALSE]
      ELSE [namespace |-> Name(parts[1]), appName |-> Name(parts[2]), ok |-> TRUE]

\* isAdmin that looks for the group name anywhere in the header.
isAdminContains(groups) == Contains(Flatten(groups), Chars(adminGroup))

\* isAdmin: one of the groups of Argocd-User-Groups is the admin group.
isAdmin(groups) ==
  LET parts == Split(Flatten(groups), ",")
  IN  \E i \in 1..Len(parts) : TrimSpace(parts[i]) = Chars(adminGroup)

writeJSON(status, v) == [status |-> status, body |-> v]

\* msg is a text.
writeError(status, msg) == writeJSON(status, [error |-> msg])

\* A Format that renders every time as the zero time.
FormatLayoutZero(t) == "0001-01-01T00:00:00Z"

\* bookedAt.UTC().Format("2006-01-02T15:04:05Z")
FormatLayout(t) == IF t = ZeroTime THEN "0001-01-01T00:00:00Z" ELSE FormatRFC3339(t)

InvalidAppHeader ==
  << "missing or invalid Argocd-Application-Name header (expected namespace:appname)" >>

MissingUsername == << "missing Argocd-Username header" >>

\* What the handlers write for the request req once the call c of the client
\* has returned; no call was made for a request the handler turned down.
StatusResponse(req, c) ==
  IF ~parseAppHeader(req.app).ok
  THEN writeError(StatusBadRequest, InvalidAppHeader)
  ELSE IF c.err # NoError
  THEN writeError(StatusInternalServerError, << "failed to get booking status" >>)
  ELSE IF c.bookedBy # ""
  THEN writeJSON(StatusOK, [booked |-> TRUE, bookedBy |-> c.bookedBy,
                            bookedAt |-> FormatLayout(c.bookedAt)])
  ELSE writeJSON(StatusOK, [booked |-> FALSE, bookedBy |-> "", bookedAt |-> ""])

BookResponse(req, c) ==
  IF ~parseAppHeader(req.app).ok
  THEN writeError(StatusBadRequest, InvalidAppHeader)
  ELSE IF req.user = ""
  THEN writeError(StatusBadRequest, MissingUsername)
  ELSE IF c.err # NoError
  THEN IF Contains(Flatten(Error(c.err, c.namespace, c.appName)), Chars("conflict:"))
       THEN writeError(StatusConflict, Error(c.err, c.namespace, c.appName))
       ELSE writeError(StatusInternalServerError, << "failed to book application" >>)
  ELSE writeJSON(StatusOK, [status |-> "booked"])

UnbookResponse(req, c) ==
  IF ~parseAppHeader(req.app).ok
  THEN writeError(StatusBadRequest, InvalidAppHeader)
  ELSE IF req.user = ""
  THEN writeError(StatusBadRequest, MissingUsername)
  ELSE IF c.err # NoError
  THEN IF Contains(Flatten(Error(c.err, c.namespace, c.appName)), Chars("forbidden:"))
       THEN writeError(StatusForbidden, Error(c.err, c.namespace, c.appName))
       ELSE writeError(StatusInternalServerError, << "failed to unbook application" >>)
  ELSE writeJSON(StatusOK, [status |-> "unbooked"])

\* A Go slice: the nil slice is written as JSON null, any other as an array.
NilSlice == [nil |-> TRUE, items |-> << >>]

Slice(items) == [nil |-> FALSE, items |-> items]

\* The slice ListBookings returned with a nil error: nil when the loop
\* appended nothing to var bookings.
Bookings(c) == IF c.bookings = << >> THEN NilSlice ELSE Slice(c.bookings)

\* ListResponse without the check for nil.
ListResponseKeepsNil(req, c) ==
  IF c.err # NoError
  THEN writeError(StatusInternalServerError, << "failed to list bookings" >>)
  ELSE writeJSON(StatusOK, Bookings(c))

ListResponse(req, c) ==
  IF c.err # NoError
  THEN writeError(StatusInternalServerError, << "failed to list bookings" >>)
  ELSE writeJSON(StatusOK, IF Bookings(c).nil THEN Slice(<< >>) ELSE Bookings(c))

\* The response to the request req, for which the call of the client ended
\* as c.
ResponseTo(req, c) ==
  CASE req.op = "status" -> StatusResponse(req, c)
    [] req.op = "book"   -> BookResponse(req, c)
    [] req.op = "unbook" -> UnbookResponse(req, c)
    [] req.op = "list"   -> ListResponse(req, c)

\* The response to the request of goroutine p, whose handler has returned.
Response(p) == ResponseTo(request[p], call[p])

\* The handler of op returns before it calls the client.
TurnDown(p, op) ==
  /\ Accepts(p)
  /\ call' = [call EXCEPT ![p] = [Idle EXCEPT !.pc = "done", !.op = op]]
  /\ UNCHANGED <<store, clock, granted>>

\* handler.Status
Handler_Status(p, app, up) ==
  LET a == parseAppHeader(app)
  IN  /\ IF ~a.ok THEN TurnDown(p, "status")
         ELSE Status(p, a.namespace, a.appName, up)
      /\ request' = [request EXCEPT ![p] = [NoRequest EXCEPT !.op = "status", !.app = app]]

\* handler.Book, up to the return of BookApp or to its first call of the API
\* server; BookApp_Now and BookApp_Patch are the rest of the handler.
Handler_Book(p, app, user, up) ==
  LET a == parseAppHeader(app)
  IN  /\ IF ~a.ok \/ user = "" THEN TurnDown(p, "book")
         ELSE BookApp_Get(p, a.namespace, a.appName, user, up)
      /\ request' = [request EXCEPT ![p] =
                       [NoRequest EXCEPT !.op = "book", !.app = app, !.user = user]]

\* handler.Unbook, up to the return of UnbookApp or to its Patch;
\* UnbookApp_Patch is the rest of the handler.
Handler_Unbook(p, app, user, groups, up) ==
  LET a == parseAppHeader(app)
  IN  /\ IF ~a.ok \/ user = "" THEN TurnDown(p, "unbook")
         ELSE UnbookApp_Get(p, a.namespace, a.appName, user, isAdmin(groups), up)
      /\ request' = [request EXCEPT ![p] =
                       [NoRequest EXCEPT !.op = "unbook", !.app = app, !.user = user,
                                         !.groups = groups]]

\* handler.List
Handler_List(p, query, up) ==
  /\ ListBookings_Call(p, IF query = "" THEN "argocd" ELSE query, up)
  /\ request' = [request EXCEPT ![p] = [NoRequest EXCEPT !.op = "list", !.query = query]]

(***************************************************************************)
(* SpecHTTP: requests to the HTTP API, served one at a time, for one       *)
(* Application the API server holds and one it does not.                   *)
(***************************************************************************)
\* Values of the header Argocd-Application-Name: absent, without a colon,
\* without a namespace, without a name, argocd/app1 and the Applications
\* argocd/conflict and argocd/forbidden, which the API server does not hold.
AppHeaders ==
  { << >>, << "argocd" >>, << ":", "app1" >>, << "argocd", ":" >>,
    << "argocd", ":", "app1" >>, << "argocd", ":", "conflict" >>,
    << "argocd", ":", "forbidden" >> }

\* Values of the header Argocd-Username; "" is the absent header.
UserHeaders == {""} \cup Usernames

\* Values of the header Argocd-User-Groups.
GroupHeaders ==
  { << >>, << "admin" >>, << "developers", ",", " ", "admin" >>,
    << "admin", " ", ",", "developers" >>, << "administrators" >> }

\* Values of the query parameter namespace; "" is the absent parameter.
NamespaceQueries == {""} \cup Namespaces

InitHTTP == InitWith({<<"argocd", "app1">>})

NextHTTP ==
  \/ Tick
  \/ \E app \in AppHeaders, up \in BOOLEAN :
       Handler_Status("r1", app, up) /\ UNCHANGED script
  \/ \E app \in AppHeaders, user \in UserHeaders, up \in BOOLEAN :
       Handler_Book("r1", app, user, up) /\ UNCHANGED script
  \/ BookApp_Now("r1")
  \/ \E up \in BOOLEAN : BookApp_Patch("r1", up)
  \/ \E app \in AppHeaders, user \in UserHeaders, groups \in GroupHeaders, up \in BOOLEAN :
       Handler_Unbook("r1", app, user, groups, up) /\ UNCHANGED script
  \/ \E up \in BOOLEAN : UnbookApp_Patch("r1", up)
  \/ \E query \in NamespaceQueries, up \in BOOLEAN :
       Handler_List("r1", query, up) /\ UNCHANGED script

SpecHTTP == InitHTTP /\ [][NextHTTP]_vars

(***************************************************************************)
(* Claims about the HTTP API are stated for SpecHTTP.                      *)
(***************************************************************************)
\* The handler of goroutine p has called the client and the call has returned.
Answered(p) == call[p].pc = "done" /\ call[p].reads = 1

(***************************************************************************)
(* C15.  The response code is fixed by what the client returned: nil gives *)
(* 200, the conflict error of BookApp 409, the forbidden error of          *)
(* UnbookApp 403, and every error of the API server (Application not       *)
(* found, API server unavailable, failed Patch) 500; a 200 is written only *)
(* when the client returned nil.                                           *)
(***************************************************************************)
CodeByOutcome ==
  \A p \in Procs :
    Answered(p) =>
      LET c == call[p]
          r == Response(p)
      IN  /\ c.err = NoError => r.status = StatusOK
          /\ r.status = StatusOK => c.err = NoError
          /\ (c.op = "book" /\ c.err = ErrConflict(c.bookedBy)) => r.status = StatusConflict
          /\ (c.op = "unbook" /\ c.err = ErrForbidden(c.bookedBy)) => r.status = StatusForbidden
          /\ c.err.cause # "" => r.status = StatusInternalServerError

(***************************************************************************)
(* C17.  For every Application name the handlers accept: Book answers 409  *)
(* only when BookApp found the Application booked by another user, and     *)
(* Unbook answers 403 only when UnbookApp found it booked by another user  *)
(* and the caller is no admin; the error text of such a response names the *)
(* holder.  An error of the API server is answered 500 with the handler's  *)
(* fixed message, which holds nothing of the error's text.                 *)
(***************************************************************************)
RefusedOnlyWhenHeld ==
  \A p \in Procs :
    (Answered(p) /\ call[p].op \in {"book", "unbook"}) =>
      LET c == call[p]
          r == Response(p)
          held == c.bookedBy \notin {"", c.username}
      IN  /\ r.status = StatusConflict =>
               /\ c.op = "book" /\ held
               /\ c.err = ErrConflict(c.bookedBy)
               /\ Contains(Flatten(r.body.error), Chars(c.bookedBy))
          /\ r.status = StatusForbidden =>
               /\ c.op = "unbook" /\ held /\ ~c.isAdmin
               /\ c.err = ErrForbidden(c.bookedBy)
               /\ Contains(Flatten(r.body.error), Chars(c.bookedBy))
          /\ c.err.cause # "" =>
               /\ r.status = StatusInternalServerError
               /\ r.body.error = IF c.op = "book"
                                 THEN << "failed to book application" >>
                                 ELSE << "failed to unbook application" >>

(***************************************************************************)
(* C16.  A status, book or unbook request whose Argocd-Application-Name    *)
(* header is absent, has no colon, or has nothing before or nothing after  *)
(* its first colon is answered 400, and so is a book or unbook request     *)
(* without Argocd-Username.  The handler then returns without calling the  *)
(* client: no Get and no Patch is sent, and the annotations and bookings   *)
(* stay as they were.                                                      *)
(***************************************************************************)
\* The header value is not namespace:appname.
BadAppHeader(raw) ==
  LET s == Flatten(raw)
  IN  \/ s = << >>
      \/ \A i \in 1..Len(s) : s[i] # ":"
      \/ s[1] = ":"
      \/ s[Len(s)] = ":" /\ \A i \in 1..(Len(s) - 1) : s[i] # ":"

BadRequest(req) ==
  /\ req.op \in {"status", "book", "unbook"}
  /\ \/ BadAppHeader(req.app)
     \/ req.op \in {"book", "unbook"} /\ req.user = ""

BadRequestTurnedDown ==
  [][\A p \in Procs :
       ( /\ Accepts(p)
         /\ request'[p] # request[p] \/ call'[p] # call[p]
         /\ BadRequest(request'[p]) ) =>
         /\ ResponseTo(request'[p], call'[p]).status = StatusBadRequest
         /\ ResponseTo(request'[p], call'[p]).body.error =
              IF BadAppHeader(request'[p].app) THEN InvalidAppHeader ELSE MissingUsername
         /\ call'[p].pc = "done"
         /\ call'[p].reads = 0
         /\ call'[p].writes = 0
         /\ store' = store
         /\ granted' = granted]_vars

\* An unbook request without a colon in Argocd-Application-Name was answered
\* 400 without a call of the client while argocd/app1 is booked.
BadRequestTurnedDownReached ==
  /\ request["r1"].op = "unbook"
  /\ request["r1"].app = << "argocd" >>
  /\ request["r1"].user = "bob"
  /\ call["r1"].pc = "done"
  /\ call["r1"].reads = 0
  /\ Response("r1").status = StatusBadRequest
  /\ Holder(store, <<"argocd", "app1">>) = "alice"

(***************************************************************************)
(* C18.  The isAdmin argument that Unbook passes to UnbookApp is true      *)
(* exactly when one of the comma-separated elements of Argocd-User-Groups  *)
(* is, with the white space around it removed, the group name admin.  An   *)
(* absent header gives false, and so does a group that only has admin as   *)
(* a part of its name.                                                     *)
(***************************************************************************)
\* The text has the admin group as an element: the name stands between two
\* places that are a comma or an end of the text, with only white space
\* around it.
HasAdminGroup(groups) ==
  LET s == Flatten(groups)
      a == Chars(adminGroup)
  IN  \E b \in 1..(Len(s) - Len(a) + 1) :
        /\ SubSeq(s, b, b + Len(a) - 1) = a
        /\ \E l \in 0..(b - 1) :
             /\ l = 0 \/ s[l] = ","
             /\ \A k \in (l + 1)..(b - 1) : s[k] \in WhiteSpace
        /\ \E r \in (b + Len(a))..(Len(s) + 1) :
             /\ r = Len(s) + 1 \/ s[r] = ","
             /\ \A k \in (b + Len(a))..(r - 1) : s[k] \in WhiteSpace

AdminByGroup ==
  \A p \in Procs :
    (request[p].op = "unbook" /\ call[p].reads = 1) =>
      /\ call[p].isAdmin <=> HasAdminGroup(request[p].groups)
      /\ request[p].groups = << >> => ~call[p].isAdmin
      /\ request[p].groups = << "administrators" >> => ~call[p].isAdmin

\* bob, whose groups are "developers, admin", has unbooked the Application
\* that alice had booked.
AdminByGroupReached ==
  /\ request["r1"].op = "unbook"
  /\ request["r1"].groups = << "developers", ",", " ", "admin" >>
  /\ call["r1"].pc = "done"
  /\ call["r1"].username = "bob"
  /\ call["r1"].bookedBy = "alice"
  /\ call["r1"].isAdmin
  /\ call["r1"].writes = 1
  /\ call["r1"].err = NoError
  /\ Unbooked(store, <<"argocd", "app1">>)

(***************************************************************************)
(* SpecScenario: one client of the HTTP API sends the requests of Script   *)
(* for one Application, each after the response to the one before, to an   *)
(* API server that answers every call.                                     *)
(***************************************************************************)
Script ==
  << [op |-> "book",   user |-> "alice", groups |-> << >>],
     [op |-> "status", user |-> "",      groups |-> << >>],
     [op |-> "book",   user |-> "bob",   groups |-> << >>],
     [op |-> "unbook", user |-> "bob",   groups |-> << >>],
     [op |-> "unbook", user |-> "bob",   groups |-> << adminGroup >>],
     [op |-> "status", user |-> "",      groups |-> << >>] >>

\* The Argocd-Application-Name header of the scripted requests: that of any
\* Application of the API server for the first, and the same one after that.
ScriptedApps ==
  IF script = 0
  THEN {<< k[1], ":", k[2] >> : k \in DOMAIN store}
  ELSE {request["r1"].app}

\* The handler of the request req for app starts.
Send(p, req, app) ==
  \/ req.op = "status" /\ Handler_Status(p, app, TRUE)
  \/ req.op = "book"   /\ Handler_Book(p, app, req.user, TRUE)
  \/ req.op = "unbook" /\ Handler_Unbook(p, app, req.user, req.groups, TRUE)

InitScenario == InitWith(AppKeys)

NextScenario ==
  \/ Tick
  \/ \E app \in ScriptedApps :
       /\ script < Len(Script)
       /\ script' = script + 1
       /\ Send("r1", Script[script + 1], app)
  \/ BookApp_Now("r1")
  \/ BookApp_Patch("r1", TRUE)
  \/ UnbookApp_Patch("r1", TRUE)

SpecScenario == InitScenario /\ [][NextScenario]_vars

(***************************************************************************)
(* C11.  For an Application that is not booked and with no other caller    *)
(* (SpecScenario): book by alice is answered 200; status then says booked  *)
(* by alice; book by bob is answered 409 with an error text that names     *)
(* alice; unbook by bob without the admin group is answered 403; unbook by *)
(* bob with the admin group is answered 200; status then says not booked.  *)
(***************************************************************************)
EndToEnd ==
  call["r1"].pc = "done" =>
    LET r == Response("r1")
    IN  /\ script = 1 => r.status = StatusOK /\ r.body = [status |-> "booked"]
        /\ script = 2 => /\ r.status = StatusOK
                         /\ r.body.booked
                         /\ r.body.bookedBy = "alice"
        /\ script = 3 => /\ r.status = StatusConflict
                         /\ Contains(Flatten(r.body.error), Chars("alice"))
        /\ script = 4 => r.status = StatusForbidden
        /\ script = 5 => r.status = StatusOK /\ r.body = [status |-> "unbooked"]
        /\ script = 6 => /\ r.status = StatusOK
                         /\ ~r.body.booked
                         /\ r.body.bookedBy = ""

\* The last request of the script was answered: not booked.
EndToEndReached ==
  /\ script = Len(Script)
  /\ call["r1"].pc = "done"
  /\ Response("r1").status = StatusOK
  /\ ~Response("r1").body.booked
  /\ \A k \in DOMAIN store : Unbooked(store, k)

(***************************************************************************)
(* SpecMalformed: requests served one at a time for an Application that    *)
(* somebody else annotated: it has a holder and no booked-at annotation,   *)
(* or one that is no RFC3339 time.                                         *)
(***************************************************************************)
NotATime == "yesterday"

InitMalformed ==
  /\ \E h \in Usernames, at \in {[a \in {} |-> ""], [a \in {AnnotationBookedAt} |-> NotATime]} :
       store = [k \in {<<"argocd", "app1">>} |->
                  [a \in {AnnotationBookedBy} \cup DOMAIN at |->
                     IF a = AnnotationBookedBy THEN h ELSE at[a]]]
  /\ clock = 0
  /\ call = [p \in Procs |-> Idle]
  /\ granted = [k \in {<<"argocd", "app1">>} |-> {}]
  /\ request = [p \in Procs |-> NoRequest]
  /\ script = 0

SpecMalformed == InitMalformed /\ [][NextSerial]_vars

\* Application k has a holder and no booked-at time that parses.
HolderWithoutTime(s, k) ==
  /\ k \in DOMAIN s
  /\ Holder(s, k) # ""
  /\ ParseRFC3339(Lookup(s[k], AnnotationBookedAt)) = ZeroTime

(***************************************************************************)
(* C20.  An Application with a holder h and no booked-at time that parses  *)
(* counts as not booked: BookApp by another user goes on to its Patch, and *)
(* UnbookApp by another user who is no admin does not fail.                *)
(***************************************************************************)
HolderWithoutTimeIsUnbooked ==
  [][\A p \in Procs, k \in Requested, u \in Usernames :
       ( /\ HolderWithoutTime(store, k)
         /\ Holder(store, k) # u ) =>
         /\ ( Enters(p, "book", k, u) /\ BookApp_Get(p, k[1], k[2], u, TRUE) ) =>
              /\ call'[p].pc = "now"
              /\ call'[p].err = NoError
         /\ ( Enters(p, "unbook", k, u) /\ UnbookApp_Get(p, k[1], k[2], u, FALSE, TRUE) ) =>
              call'[p].err = NoError]_vars

(***************************************************************************)
(* C20, amended.  An Application with a holder h and no booked-at time     *)
(* that parses is booked by h: GetBookingStatus returns h with the zero    *)
(* time, BookApp by another user returns the conflict error naming h, and  *)
(* UnbookApp by another user who is no admin returns the forbidden error   *)
(* naming h; neither sends a Patch, and the annotations stay as they are.  *)
(***************************************************************************)
HolderWithoutTimeIsBooked ==
  [][\A p \in Procs, k \in Requested, u \in Usernames :
       ( /\ HolderWithoutTime(store, k)
         /\ Holder(store, k) # u ) =>
         /\ ( Enters(p, "book", k, u) /\ BookApp_Get(p, k[1], k[2], u, TRUE) ) =>
              /\ call'[p].pc = "done"
              /\ call'[p].err = ErrConflict(Holder(store, k))
              /\ call'[p].writes = 0
              /\ store' = store
         /\ ( Enters(p, "unbook", k, u) /\ UnbookApp_Get(p, k[1], k[2], u, FALSE, TRUE) ) =>
              /\ call'[p].pc = "done"
              /\ call'[p].err = ErrForbidden(Holder(store, k))
              /\ call'[p].writes = 0
              /\ store' = store
         /\ ( Enters(p, "status", k, "") /\ Status(p, k[1], k[2], TRUE) ) =>
              /\ call'[p].err = NoError
              /\ call'[p].bookedBy = Holder(store, k)
              /\ call'[p].bookedAt = ZeroTime]_vars

\* BookApp of bob has returned the conflict error for the Application whose
\* annotations name alice and a booked-at value that is no time.
HolderWithoutTimeReached ==
  /\ HolderWithoutTime(store, <<"argocd", "app1">>)
  /\ store[<<"argocd", "app1">>] =
       [a \in {AnnotationBookedBy, AnnotationBookedAt} |->
          IF a = AnnotationBookedBy THEN "alice" ELSE NotATime]
  /\ call["r1"].pc = "done"
  /\ call["r1"].op = "book"
  /\ call["r1"].username = "bob"
  /\ call["r1"].err = ErrConflict("alice")

StepOf(p) == [call'[p] EXCEPT !.dirty = call[p].dirty] # call[p]

ReadThenWrite ==
  [][\A p \in Procs :
       StepOf(p) =>
         LET c == call[p]
             d == call'[p]
         IN  \* a call begins with its one Get or List
             /\ Free(p) => /\ d.reads = 1
                           /\ d.writes = 0
                           /\ store' = store
             /\ d.op \in {"status", "list"} => d.pc = "done"
             \* the clock is read between the Get and the Patch
             /\ c.pc = "now" => /\ d.pc = "patch"
                                /\ d.reads = 1 /\ d.writes = 0
                                /\ store' = store
             \* the Patch ends the call, and is applied when the API server
             \* answers, overtaken or not
             /\ (c.pc = "patch" /\ d.pc = "done") =>
                  /\ d.reads = 1 /\ d.writes = 1
                  /\ d.err = NoError =>
                       store' = Patch(store, TRUE, c.namespace, c.appName,
                                      IF c.op = "book"
                                      THEN BookAppPatch(c.username, c.now)
                                      ELSE UnbookAppPatch).store
                  /\ (d.err = NoError /\ c.op = "book") =>
                       /\ Holder(store', Key(c)) = c.username
                       /\ store'[Key(c)][AnnotationBookedAt] = c.now
                  /\ (d.err = NoError /\ c.op = "unbook") => Unbooked(store', Key(c))
             \* nothing is done twice
             /\ d.reads <= 1 /\ d.writes <= 1
             /\ (~Free(p) /\ c.pc # "patch") => d.pc # "done"]_vars

\* An overtaken UnbookApp has sent its Patch and the Patch was applied.
ReadThenWriteReached ==
  \E p \in Procs :
    /\ call[p].pc = "done"
    /\ call[p].op = "unbook"
    /\ call[p].dirty
    /\ call[p].reads = 1
    /\ call[p].writes = 1
    /\ call[p].err = NoError
    /\ Unbooked(store, Key(call[p]))

(***************************************************************************)
(* SpecLive: the calls of Spec at one time of day, with calls that go on:  *)
(* the goroutine of a call keeps running, and the API server answers every *)
(* Patch sent to it.                                                       *)
(***************************************************************************)
NextLive == Calls(Procs)

Fairness ==
  \A p \in Procs :
    /\ WF_vars(BookApp_Now(p))
    /\ WF_vars(\E up \in BOOLEAN : BookApp_Patch(p, up))
    /\ WF_vars(\E up \in BOOLEAN : UnbookApp_Patch(p, up))

SpecLive == Init /\ [][NextLive]_vars /\ Fairness

(***************************************************************************)
(* C23.  When the API server answers its calls, every call of the client   *)
(* returns: a call that is under way returns after its own Get, clock      *)
(* reading and Patch, whatever the other goroutine does and whoever holds  *)
(* the booking; it does not wait for the Application to be unbooked.       *)
(***************************************************************************)
EveryCallReturns ==
  \A p \in Procs : (call[p].pc \in {"now", "patch"}) ~> (call[p].pc = "done")

\* The BookApp of one goroutine has returned after its Patch although the
\* other goroutine's Patch overtook it, and the other goroutine is in the
\* middle of a call.
EveryCallReturnsReached ==
  \E p \in Procs, q \in Procs :
    /\ call[p].pc = "done" /\ call[p].op = "book"
    /\ call[p].dirty /\ call[p].writes = 1
    /\ call[q].pc = "patch"

(***************************************************************************)
(* SpecStatus: the requests of SpecHTTP for an Application that has no     *)
(* booking annotation, or that somebody else gave a booked-at annotation   *)
(* and no holder.                                                          *)
(***************************************************************************)
InitStatus ==
  /\ \E annotations \in {[a \in {OtherAnnotation} |-> "platform"],
                         [a \in {AnnotationBookedAt} |-> RFC3339[1]]} :
       store = [k \in {<<"argocd", "app1">>} |-> annotations]
  /\ clock = 0
  /\ call = [p \in Procs |-> Idle]
  /\ granted = [k \in {<<"argocd", "app1">>} |-> {}]
  /\ request = [p \in Procs |-> NoRequest]
  /\ script = 0

SpecStatus == InitStatus /\ [][NextHTTP]_vars

(***************************************************************************)
(* C24.  The 200 response of the status endpoint says booked exactly when  *)
(* the Application's booked-by annotation is not empty.  When booked,      *)
(* bookedBy is that annotation and bookedAt is the booked-at annotation's  *)
(* time as an RFC3339 string in UTC; when not booked, bookedBy and         *)
(* bookedAt are left out (empty), also when the Application has a          *)
(* booked-at annotation and no holder.                                     *)
(***************************************************************************)
StatusSaysHolder ==
  \A p \in Procs :
    ( /\ request[p].op = "status"
      /\ Answered(p)
      /\ Response(p).status = StatusOK ) =>
      LET k == Key(call[p])
          body == Response(p).body
      IN  /\ k \in DOMAIN store
          /\ body.booked <=> Holder(store, k) # ""
          /\ body.booked =>
               /\ body.bookedBy = Holder(store, k)
               /\ body.bookedAt = store[k][AnnotationBookedAt]
               /\ \E i \in 1..Len(RFC3339) : body.bookedAt = RFC3339[i]
          /\ ~body.booked =>
               /\ body.bookedBy = ""
               /\ body.bookedAt = ""

\* The status endpoint has answered that argocd/app1 is booked by alice
\* since the second second on the clock.
StatusSaysHolderReached ==
  /\ request["r1"].op = "status"
  /\ Answered("r1")
  /\ Response("r1").status = StatusOK
  /\ Response("r1").body.booked
  /\ Response("r1").body.bookedBy = "alice"
  /\ Response("r1").body.bookedAt = RFC3339[2]

(***************************************************************************)
(* C25.  The list endpoint lists the namespace argocd when the query       *)
(* parameter namespace is absent or empty, and the given namespace         *)
(* otherwise.  When no Application of the namespace is booked it answers   *)
(* 200 with an empty array, never null; it answers 500 exactly when the    *)
(* List call of the API server failed.                                     *)
(***************************************************************************)
ListDefaultsToArgocd ==
  \A p \in Procs :
    (request[p].op = "list" /\ call[p].pc = "done") =>
      LET ns == IF request[p].query = "" THEN "argocd" ELSE request[p].query
          r  == Response(p)
      IN  /\ call[p].op = "list"
          /\ call[p].reads = 1
          /\ call[p].namespace = ns
          /\ r.status \in {StatusOK, StatusInternalServerError}
          /\ r.status = StatusInternalServerError <=> call[p].err = ErrList("unavailable")
          /\ r.status = StatusOK =>
               /\ ~r.body.nil
               /\ r.body.items = ListBookings(store, TRUE, ns).bookings
               /\ Len(r.body.items) =
                    Cardinality({k \in DOMAIN store : k[1] = ns /\ Holder(store, k) # ""})

\* The list endpoint was asked without a namespace while argocd/app1 is not
\* booked, and has answered 200 with the empty array.
ListDefaultsToArgocdReached ==
  /\ request["r1"].op = "list"
  /\ request["r1"].query = ""
  /\ call["r1"].pc = "done"
  /\ call["r1"].namespace = "argocd"
  /\ Response("r1").status = StatusOK
  /\ Response("r1").body = Slice(<< >>)
  /\ Unbooked(store, <<"argocd", "app1">>)

(***************************************************************************)
(* SpecPanel: the StatusPanel of one browser, shown for Application        *)
(* argocd/app1 and never clicked, next to the book and unbook requests of  *)
(* other clients.  Goroutine r1 serves the other clients; the getStatus    *)
(* request of the panel is served by goroutine r2.                         *)
(***************************************************************************)
Panel == "r2"

\* appIdentifier of the panel: `${appNamespace}:${appName}`.
appIdentifier == << "argocd", ":", "app1" >>

\* The effect that fetches the status has run: it runs after the first
\* render, and again only when appName or appNamespace change.
Mounted == request[Panel].op = "status"

\* useEffect(() => { fetchStatusRef.current?.() }, [appName, appNamespace]):
\* getStatus sends GET /api/status with the header Argocd-Application-Name.
Panel_Mount(up) ==
  /\ ~Mounted
  /\ Handler_Status(Panel, appIdentifier, up)
  /\ UNCHANGED script

\* The state `status` and `error` of the panel: getStatus throws on a
\* response that is not ok, and status stays null.
PanelState ==
  IF ~Mounted \/ call[Panel].pc # "done"
  THEN [status |-> "null", error |-> FALSE, bookedBy |-> ""]
  ELSE IF Response(Panel).status # StatusOK
  THEN [status |-> "null", error |-> TRUE, bookedBy |-> ""]
  ELSE [status |-> IF Response(Panel).body.booked THEN "booked" ELSE "unbooked",
        error |-> FALSE, bookedBy |-> Response(Panel).body.bookedBy]

InitPanel == InitWith({<<"argocd", "app1">>})

NextPanel ==
  \/ Tick
  \/ \E up \in BOOLEAN : Panel_Mount(up)
  \/ \E user \in Usernames, up \in BOOLEAN :
       Handler_Book("r1", appIdentifier, user, up) /\ UNCHANGED script
  \/ BookApp_Now("r1")
  \/ \E up \in BOOLEAN : BookApp_Patch("r1", up)
  \/ \E user \in Usernames, groups \in {<< >>, << "admin" >>}, up \in BOOLEAN :
       Handler_Unbook("r1", appIdentifier, user, groups, up) /\ UNCHANGED script
  \/ \E up \in BOOLEAN : UnbookApp_Patch("r1", up)

\* The browser runs the effect of a rendered component, and a handler that
\* was entered runs to its end.
FairnessPanel ==
  /\ WF_vars(\E up \in BOOLEAN : Panel_Mount(up))
  /\ WF_vars(BookApp_Now("r1"))
  /\ WF_vars(\E up \in BOOLEAN : BookApp_Patch("r1", up))
  /\ WF_vars(\E up \in BOOLEAN : UnbookApp_Patch("r1", up))

SpecPanel == InitPanel /\ [][NextPanel]_vars /\ FairnessPanel

(***************************************************************************)
(* C26.  A panel that shows argocd/app1 and is not clicked comes to show   *)
(* every booking state of argocd/app1 that other clients bring about:      *)
(* whenever the Application is held by h (or by nobody), the panel         *)
(* eventually holds a status that says so, unless the holder changes       *)
(* again before.                                                           *)
(***************************************************************************)
FreshByPolling ==
  \A h \in Usernames \cup {""} :
    (Mounted /\ Holder(store, <<"argocd", "app1">>) = h)
      ~> \/ Holder(store, <<"argocd", "app1">>) # h
         \/ /\ PanelState.status = (IF h = "" THEN "unbooked" ELSE "booked")
            /\ PanelState.bookedBy = h

(***************************************************************************)
(* C27.  Under every interleaving of the calls, the Patch of an UnbookApp  *)
(* whose caller is not an admin removes the booked-by annotation only when *)
(* the holder stored at the moment the Patch is applied is the caller: it  *)
(* never clears the booking somebody else made between the call's Get and  *)
(* its Patch.                                                              *)
(***************************************************************************)
UnbookClearsOwnBooking ==
  [][\A p \in Procs :
       ( /\ UnbookPatched(p)
         /\ ~call[p].isAdmin
         /\ Holder(store, Key(call[p])) # ""
         /\ Holder(store', Key(call[p])) = "" ) =>
       Holder(store, Key(call[p])) = call[p].username]_vars

(***************************************************************************)
(* SpecAnyUser: calls of the client made one at a time for one             *)
(* Application, by a caller that passes any username, the empty string     *)
(* included (the handlers turn the empty username down, the client does    *)
(* not).                                                                   *)
(***************************************************************************)
AnyUsername == Usernames \cup {""}

InitAnyUser == InitWith({<<"argocd", "app1">>})

NextAnyUser ==
  \/ Tick
  \/ \E k \in Requested, u \in AnyUsername, up \in BOOLEAN :
       BookApp_Get("r1", k[1], k[2], u, up) /\ UNCHANGED <<request, script>>
  \/ BookApp_Now("r1")
  \/ \E up \in BOOLEAN : BookApp_Patch("r1", up)
  \/ \E k \in Requested, u \in AnyUsername, admin \in BOOLEAN, up \in BOOLEAN :
       UnbookApp_Get("r1", k[1], k[2], u, admin, up) /\ UNCHANGED <<request, script>>
  \/ \E up \in BOOLEAN : UnbookApp_Patch("r1", up)

SpecAnyUser == InitAnyUser /\ [][NextAnyUser]_vars

(***************************************************************************)
(* C28.  When BookApp(namespace, appName, username) has returned nil and   *)
(* no other call ran meanwhile, the holder stored for the Application,     *)
(* read as GetBookingStatus reads it (a missing booked-by annotation is    *)
(* the empty string), is username; also when username is the empty        *)
(* string.                                                                 *)
(***************************************************************************)
BookedByCaller ==
  ( /\ call["r1"].pc = "done"
    /\ call["r1"].op = "book"
    /\ call["r1"].err = NoError ) =>
  Holder(store, Key(call["r1"])) = call["r1"].username

\* BookApp has returned nil to the empty username: it sent no Patch and the
\* Application has no booking annotation.
BookedByCallerReached ==
  /\ call["r1"].pc = "done"
  /\ call["r1"].op = "book"
  /\ call["r1"].err = NoError
  /\ call["r1"].username = ""
  /\ call["r1"].writes = 0
  /\ Unbooked(store, Key(call["r1"]))

(***************************************************************************)
(* C29.  Bookings of different Applications are independent.  A step of    *)
(* BookApp or UnbookApp for the Application (namespace, appName) leaves    *)
(* the annotations of every other Application as they were, and what the   *)
(* call comes to after its Get (an error, a refusal, nothing to do, or a   *)
(* Patch) is what it comes to when the API server holds that Application   *)
(* alone: no booking of another Application, an Application of the same    *)
(* name in another namespace included, has a part in it.  Stated for calls *)
(* made one at a time (SpecSerial).                                        *)
(***************************************************************************)
\* The API server s with every Application but k taken away.
Alone(s, k) == [j \in {k} \cap DOMAIN s |-> s[j]]

\* What the call c comes to after its Get when the API server holds the
\* Application of c alone and answers.
AloneOutcome(s, c) ==
  LET r    == GetBookingStatus(Alone(s, Key(c)), TRUE, c.namespace, c.appName)
      todo == IF c.op = "book"
              THEN BookAppCheck(r.bookedBy, c.username)
              ELSE UnbookAppCheck(r.bookedBy, c.username, c.isAdmin)
  IN  IF r.err # NoError THEN [returns |-> TRUE, err |-> r.err]
      ELSE CASE todo = "conflict"  -> [returns |-> TRUE, err |-> ErrConflict(r.bookedBy)]
             [] todo = "forbidden" -> [returns |-> TRUE, err |-> ErrForbidden(r.bookedBy)]
             [] todo = "patch"     -> [returns |-> FALSE, err |-> NoError]
             [] OTHER              -> [returns |-> TRUE, err |-> NoError]

\* The call c has sent its Get and no Patch, and the API server answered
\* the Get.
AfterGet(c) ==
  /\ c.op \in {"book", "unbook"}
  /\ c.reads = 1
  /\ c.writes = 0
  /\ c.err # ErrGet("unavailable")

LocksIndependent ==
  [][/\ \A k \in DOMAIN store :
          store'[k] # store[k] =>
            \E p \in Procs : call[p].pc = "patch" /\ Key(call[p]) = k
     /\ AfterGet(call'["r1"]) =>
          /\ call'["r1"].err = AloneOutcome(store', call'["r1"]).err
          /\ (call'["r1"].pc = "done") = AloneOutcome(store', call'["r1"]).returns]_vars

\* argocd/app1 is booked by alice, and BookApp(other, app1, bob) has
\* returned nil after its Patch.
LocksIndependentReached ==
  /\ Holder(store, <<"argocd", "app1">>) = "alice"
  /\ Holder(store, <<"other", "app1">>) = "bob"
  /\ call["r1"].pc = "done"
  /\ call["r1"].op = "book"
  /\ Key(call["r1"]) = <<"other", "app1">>
  /\ call["r1"].username = "bob"
  /\ call["r1"].writes = 1
  /\ call["r1"].err = NoError

(***************************************************************************)
(* C30.  The Patch of BookApp and the Patch of UnbookApp change nothing of *)
(* the Application but the annotations booked-by and booked-at: in every   *)
(* step, every other annotation the Application has is kept with its       *)
(* value, and no other annotation is added.                                *)
(***************************************************************************)
\* The annotations other than the two of the booking.
Others(annotations) ==
  [a \in DOMAIN annotations \ {AnnotationBookedBy, AnnotationBookedAt} |-> annotations[a]]

OnlyBookingAnnotations ==
  [][\A k \in DOMAIN store : Others(store'[k]) = Others(store[k])]_vars

\* UnbookApp has returned nil after its Patch to argocd/app1, which has its
\* other annotation and no booking; argocd/app2, which had no annotation,
\* is booked and has the two annotations of the booking.
OnlyBookingAnnotationsReached ==
  /\ call["r1"].pc = "done"
  /\ call["r1"].op = "unbook"
  /\ call["r1"].writes = 1
  /\ call["r1"].err = NoError
  /\ Key(call["r1"]) = <<"argocd", "app1">>
  /\ store[<<"argocd", "app1">>] = [a \in {OtherAnnotation} |-> "platform"]
  /\ DOMAIN store[<<"argocd", "app2">>] = {AnnotationBookedBy, AnnotationBookedAt}

====
